---- MODULE Spec2Model ----
(***************************************************************************)
(* A model of the left-right primitive of src/src/write.rs and             *)
(* src/src/lib.rs: one WriteHandle owning two heap copies of the data, an  *)
(* operational log, and the epoch registry it shares with its read         *)
(* handles.  Every shared-memory access (one atomic load, one fetch_add,   *)
(* one swap) is a step of its own; the steps are interleaved under         *)
(* sequential consistency.  The read side (ReadHandle::enter, the guard,   *)
(* clone and drop of a read handle) lives in src/src/read.rs, which is not *)
(* part of the sources at hand, and is modelled from the specification's   *)
(* section 4.2; the slab is the external `slab` crate, modelled from       *)
(* section 4.1.                                                            *)
(*                                                                         *)
(* The data type T is the i32 counter of src/src/utilities.rs extended     *)
(* with the list of operations applied to it, so that the order and the    *)
(* multiplicity of applications can be read off a copy.                    *)
(***************************************************************************)
EXTENDS Integers, Sequences, FiniteSets, TLC

(* ------------------------------ bounds -------------------------------- *)

\* read handles alive at a time, besides the one the write handle owns
MaxReaders == 1

\* operations appended over the life of one write handle
MaxOps == 2

\* width of an epoch counter, in bits (usize in the source)
EpochBits == 2

\* calls of enter over all read handles
MaxEnters == 2

\* read handles registered over the life of the registry, after the one
\* the write handle owns
MaxRegistered == 1

(* ----------------------------- constants ------------------------------ *)

\* the initial counter value of tests::take_test
InitValue == 2

\* the largest payload of a CounterAddOp drawn as an input
MaxOpValue == 1

Pow2(n) == IF n = 0 THEN 1 ELSE 2 ^ n

EpochMod == Pow2(EpochBits)

Readers == 0 .. MaxReaders

\* the payloads of CounterAddOp(pub i32) drawn as inputs: a negative one,
\* zero, and the positive ones up to the largest
Ops == (0 - 1) .. MaxOpValue

\* the two heap allocations: Box::into_raw of init.clone() and of init
Copies == {1, 2}

\* ptr::null_mut()
Null == 0

\* a vacant slab entry
Vacant == -1

(* ------------------------------- state -------------------------------- *)

VARIABLES
    data,        \* Copies -> [val, hist]: the contents of the two Ts
    status,      \* Copies -> "live" | "freed" | "owned" (boxed and returned)
    inner,       \* r_handle.inner: the published pointer, a copy or Null
    w_handle,    \* WriteHandle::w_handle, a copy
    oplog,       \* WriteHandle::oplog
    swap_index,  \* WriteHandle::swap_index
    last_epochs, \* WriteHandle::last_epochs, entry s is slab key s - 1
    slab,        \* the epoch registry: entry s holds a reader or Vacant
    mutex,       \* holder of the registry mutex: "free" | "writer"
    wpc,         \* the writer's position
    wop,         \* the WriteHandle method in progress
    wi,          \* position of the writer's loop over the slab / the log
    taken_ptr,   \* the local r_handle of take / drop
    result,      \* what take returned: <<>> until then, <<value>> after
    rpc,         \* Readers -> position of the read handle
    repoch,      \* Readers -> its epoch counter
    rguards,     \* Readers -> Copies -> its live guards that hold the pointer
    robs,        \* Readers -> the value it saw at its last successful enter
    leaked,      \* Readers -> guards of the handle forgotten so far
    allOps,      \* every operation appended so far, in order
    published,   \* log lengths made visible by a swap so far
    completed,   \* operations covered by the last publish that returned
    enters,      \* calls of enter so far
    registered,  \* read handles registered so far, after the first
    pinned,      \* readers none of whose guards has gone since publish was called
    stale        \* slots whose handle was dropped after their last snapshot

wvars == <<data, status, inner, w_handle, oplog, swap_index, last_epochs,
           wpc, wop, wi, taken_ptr, result>>

rvars == <<rpc, repoch, rguards, robs, leaked>>

\* the history kept of appends, publishes, enters and registrations
hvars == <<allOps, published, completed, enters, registered>>

gvars == <<hvars, pinned, stale>>

vars == <<wvars, slab, mutex, rvars, gvars>>

(* ------------------------- the Apply capability ----------------------- *)

\* the value a copy holds: the counter and the operations applied to it
Value(v, h) == [val |-> v, hist |-> h]

\* CounterAddOp::apply_first: *first += self.0
apply_first(op, first) == Value(first.val + op, Append(first.hist, op))

\* (mutant) the second application is lost
apply_second_lost(op, second) == second

\* CounterAddOp::apply_second: *second += self.0
apply_second(op, second) == Value(second.val + op, Append(second.hist, op))

\* initial value with a sequence of operations applied in order
RECURSIVE Fold(_, _)
Fold(t, ops) ==
    IF ops = <<>> THEN t ELSE Fold(apply_first(Head(ops), t), Tail(ops))

Initial == Value(InitValue, <<>>)

(* ----------------------------- the registry --------------------------- *)

\* AtomicUsize::fetch_add(1): the counter wraps at its width
Inc(e) == (e + 1) % EpochMod

\* wait: last_epochs[ri] % 2 == 0
was_even(e) == e % 2 = 0

\* (mutant) the epoch of a reader never counts as changed
has_changed_never(now, last) == FALSE

\* (mutant) every reader counts as having moved on
has_changed_always(now, last) == TRUE

\* wait: now != self.last_epochs[ri]
has_changed(now, last) == now # last

Occupied(s) == s \in 1 .. Len(slab) /\ slab[s] # Vacant

\* the capacity of a Vec that was empty at first and has had n elements
\* pushed: nothing is allocated for none, room for 4 at the first push, and
\* the room doubles whenever it is used up
RECURSIVE Grown(_, _)
Grown(cap, n) ==
    IF n <= cap THEN cap ELSE Grown(IF cap = 0 THEN 4 ELSE 2 * cap, n)

\* Slab::capacity: the capacity of the Vec of entries, which holds every
\* entry ever allocated, vacant or not; an over-estimate of the keys in use
Capacity == Grown(0, Len(slab))

\* (mutant) the new entries of last_epochs are filled with an odd epoch
Resize_odd(v, n) == [s \in 1 .. n |-> IF s <= Len(v) THEN v[s] ELSE 1]

\* Vec::resize(n, 0)
Resize(v, n) == [s \in 1 .. n |-> IF s <= Len(v) THEN v[s] ELSE 0]

\* Slab::insert: a vacant entry is reused, otherwise one is pushed
SlabInsert(r) ==
    IF \E s \in 1 .. Len(slab) : slab[s] = Vacant
    THEN \E s \in 1 .. Len(slab) :
            /\ slab[s] = Vacant
            /\ slab' = [slab EXCEPT ![s] = r]
    ELSE slab' = Append(slab, r)

\* Slab::remove
SlabRemove(r) == slab' = [s \in 1 .. Len(slab) |-> IF slab[s] = r THEN Vacant ELSE slab[s]]

\* epochs.iter(): the next occupied entry at or after s, or Len(slab) + 1
RECURSIVE NextSlot(_)
NextSlot(s) ==
    IF s > Len(slab) \/ Occupied(s) THEN s ELSE NextSlot(s + 1)

\* the loop of wait: the next occupied entry at or after s whose epoch
\* recorded in `last` is odd, or Len(slab) + 1
RECURSIVE NextOdd(_, _)
NextOdd(s, last) ==
    IF s > Len(slab) THEN s
    ELSE IF Occupied(s) /\ ~was_even(last[s]) THEN s
    ELSE NextOdd(s + 1, last)

(* ------------------------------- Init --------------------------------- *)

\* lib.rs new(): the read handle gets init.clone(), the write handle init;
\* ReadHandle::new registers the write handle's own reader in the slab
Init ==
    /\ data = [c \in Copies |-> Initial]
    /\ status = [c \in Copies |-> "live"]
    /\ inner = 1
    /\ w_handle = 2
    /\ oplog = <<>>
    /\ swap_index = 0
    /\ last_epochs = <<>>
    /\ slab = <<0>>
    /\ mutex = "free"
    /\ wpc = "idle"
    /\ wop = "none"
    /\ wi = 0
    /\ taken_ptr = Null
    /\ result = <<>>
    /\ rpc = [r \in Readers |-> IF r = 0 THEN "ready" ELSE "none"]
    /\ repoch = [r \in Readers |-> 0]
    /\ rguards = [r \in Readers |-> [c \in Copies |-> 0]]
    /\ robs = [r \in Readers |-> Initial]
    /\ leaked = [r \in Readers |-> 0]
    /\ allOps = <<>>
    /\ published = {0}
    /\ completed = 0
    /\ enters = 0
    /\ registered = 0
    /\ pinned = {}
    /\ stale = {}

(* ------------------ the read side (specification 4.2) ----------------- *)

\* what a read through a dangling pointer may yield besides the old value
Poison == Value(-1, <<0>>)

\* the values a read through a guard holding pointer c may yield: the value
\* of the copy, or anything at all once the allocation has been freed
Deref(c) ==
    IF status[c] = "freed"
    THEN {data[c], Poison}
    ELSE {data[c]}

\* a handle without guards
NoGuards == [c \in Copies |-> 0]

\* the pointers held by the live guards of read handle r
Held(r) == {c \in Copies : rguards[r][c] > 0}

\* enter, step 1: the epoch counter is incremented, whatever it holds.
\* enter takes &self: the thread that owns the handle may call it with guards
\* of the handle alive or forgotten, and "ready" only says that this thread
\* is not inside another call on the handle.  Reader 0 is the read handle
\* the write handle owns and derefs to: the thread of the writer enters
\* through it between two calls on the write handle
ReaderIncrement(r) ==
    /\ r = 0 => wpc = "idle"
    /\ rpc[r] = "ready"
    /\ enters < MaxEnters
    /\ enters' = enters + 1
    /\ rpc' = [rpc EXCEPT ![r] = "entered"]
    /\ repoch' = [repoch EXCEPT ![r] = Inc(@)]
    /\ UNCHANGED <<wvars, slab, mutex, rguards, robs, leaked, allOps,
                   published, completed, registered, pinned, stale>>

\* (mutant) enter takes the registry mutex for its load
ReaderLoad_locked(r) ==
    /\ mutex = "free"
    /\ rpc[r] = "entered"
    /\ IF inner = Null
       THEN /\ rpc' = [rpc EXCEPT ![r] = "rollback"]
            /\ UNCHANGED <<rguards, robs>>
       ELSE /\ rpc' = [rpc EXCEPT ![r] = "ready"]
            /\ rguards' = [rguards EXCEPT ![r][inner] = @ + 1]
            /\ robs' = [robs EXCEPT ![r] = data[inner]]
    /\ UNCHANGED <<wvars, slab, mutex, repoch, leaked, gvars>>

\* enter, steps 2-4: the published pointer is loaded; a null pointer leads
\* to the rollback, anything else to one more guard, holding the pointer
ReaderLoad(r) ==
    /\ rpc[r] = "entered"
    /\ IF inner = Null
       THEN /\ rpc' = [rpc EXCEPT ![r] = "rollback"]
            /\ UNCHANGED <<rguards, robs>>
       ELSE /\ rpc' = [rpc EXCEPT ![r] = "ready"]
            /\ rguards' = [rguards EXCEPT ![r][inner] = @ + 1]
            /\ robs' = [robs EXCEPT ![r] = data[inner]]
    /\ UNCHANGED <<wvars, slab, mutex, repoch, leaked, gvars>>

\* enter, step 3: the epoch is incremented again and enter returns None
ReaderRollback(r) ==
    /\ rpc[r] = "rollback"
    /\ rpc' = [rpc EXCEPT ![r] = "ready"]
    /\ repoch' = [repoch EXCEPT ![r] = Inc(@)]
    /\ UNCHANGED <<wvars, slab, mutex, rguards, robs, leaked, gvars>>

\* one of the guards of r is dropped, by the thread that owns the handle:
\* the epoch is incremented
GuardDrop(r) ==
    /\ rpc[r] = "ready"
    /\ \E c \in Held(r) : rguards' = [rguards EXCEPT ![r][c] = @ - 1]
    /\ repoch' = [repoch EXCEPT ![r] = Inc(@)]
    /\ pinned' = pinned \ {r}
    /\ UNCHANGED <<wvars, slab, mutex, rpc, robs, leaked, hvars, stale>>

\* mem::forget(guard): the guard is gone without its drop having run, so the
\* epoch keeps the increment of its enter; the borrow of the handle ends
\* with the guard
GuardForget(r) ==
    /\ rpc[r] = "ready"
    /\ \E c \in Held(r) : rguards' = [rguards EXCEPT ![r][c] = @ - 1]
    /\ leaked' = [leaked EXCEPT ![r] = @ + 1]
    /\ pinned' = pinned \ {r}
    /\ UNCHANGED <<wvars, slab, mutex, rpc, repoch, robs, hvars, stale>>

\* clone / factory: a new read handle registers a fresh epoch counter,
\* under the registry mutex.  Handles are numbered in the order they appear.
ReaderRegister(r) ==
    /\ r # 0
    /\ rpc[r] = "none"
    /\ \A q \in 1 .. r - 1 : rpc[q] # "none"
    /\ mutex = "free"
    /\ registered < MaxRegistered
    /\ registered' = registered + 1
    /\ SlabInsert(r)
    /\ rpc' = [rpc EXCEPT ![r] = "ready"]
    /\ repoch' = [repoch EXCEPT ![r] = 0]
    /\ robs' = [robs EXCEPT ![r] = Initial]
    /\ UNCHANGED <<wvars, mutex, rguards, leaked, allOps, published,
                   completed, enters, pinned, stale>>

\* a read handle is dropped, which no live guard of it allows: its slot is
\* removed, under the registry mutex
ReaderDeregister(r) ==
    /\ r # 0
    /\ rpc[r] = "ready"
    /\ Held(r) = {}
    /\ mutex = "free"
    /\ SlabRemove(r)
    /\ rpc' = [rpc EXCEPT ![r] = "none"]
    /\ repoch' = [repoch EXCEPT ![r] = 0]
    /\ robs' = [robs EXCEPT ![r] = Initial]
    /\ leaked' = [leaked EXCEPT ![r] = 0]
    /\ stale' = stale \cup {s \in 1 .. Len(slab) : slab[s] = r}
    /\ UNCHANGED <<wvars, mutex, rguards, hvars, pinned>>

\* the thread that owns read handle q calls q.clone() and drops the clone at
\* once; clone takes &self, so guards of q may be alive.  The call arrives
\* at the lock of the registry mutex
ReaderCloneLock(q) ==
    /\ q # 0
    /\ rpc[q] = "ready"
    /\ rpc' = [rpc EXCEPT ![q] = "clone"]
    /\ UNCHANGED <<wvars, slab, mutex, repoch, rguards, robs, leaked, gvars>>

\* the clone gets the mutex, inserts its epoch counter, and its drop removes
\* it again: the slab is left with a vacant entry
ReaderCloneInsert(q) ==
    /\ rpc[q] = "clone"
    /\ mutex = "free"
    /\ slab' = IF \E s \in 1 .. Len(slab) : slab[s] = Vacant
               THEN slab ELSE Append(slab, Vacant)
    /\ rpc' = [rpc EXCEPT ![q] = "ready"]
    /\ UNCHANGED <<wvars, mutex, repoch, rguards, robs, leaked, gvars>>

(* --------------------------- the write handle -------------------------- *)

\* the writer's thread is between two calls on the write handle, and no
\* guard taken through the write handle borrows it
WriterIdle == wpc = "idle" /\ rpc[0] = "ready" /\ rguards[0] = NoGuards

\* the read handles that hold a guard
Guards == {r \in Readers : \E c \in Copies : rguards[r][c] > 0}

\* (mutant) any operation in the log counts as pending
has_pending_any == Len(oplog) > 0

\* WriteHandle::has_pending_operations
has_pending_operations == swap_index < Len(oplog)

\* sequences over Ops of length at most n
RECURSIVE Batches(_)
Batches(n) ==
    IF n = 0 THEN {<<>>}
    ELSE LET B == Batches(n - 1) IN
         B \cup {Append(b, o) : b \in {x \in B : Len(x) = n - 1}, o \in Ops}

\* the payload of the next operation when the payloads count up, as in
\* tests::append_test
NextOp == Len(allOps) + 1

\* (mutant) the operations are also applied to the write copy at once
extend_direct(ops) ==
    /\ wpc = "idle"
    /\ Len(allOps) + Len(ops) <= MaxOps
    /\ oplog' = oplog \o ops
    /\ allOps' = allOps \o ops
    /\ data' = [data EXCEPT ![w_handle] = Fold(@, ops)]
    /\ UNCHANGED <<status, inner, w_handle, swap_index, last_epochs,
                   wpc, wop, wi, taken_ptr, result, slab, mutex, rvars,
                   published, completed, enters, registered, pinned, stale>>

\* Extend::extend: self.oplog.extend(ops)
extend(ops) ==
    /\ WriterIdle
    /\ Len(allOps) + Len(ops) <= MaxOps
    /\ oplog' = oplog \o ops
    /\ allOps' = allOps \o ops
    /\ UNCHANGED <<data, status, inner, w_handle, swap_index, last_epochs,
                   wpc, wop, wi, taken_ptr, result, slab, mutex, rvars,
                   published, completed, enters, registered, pinned, stale>>

\* WriteHandle::append: self.extend(std::iter::once(op))
append(op) == extend(<<op>>)

\* (mutant) the drain of the operations already published is left out
after_wait_no_drain == IF Len(oplog) # 0 THEN "apply_first" ELSE "swap"

\* where publish goes on after its wait: the drain, the first applications,
\* or straight to the swap when the log is empty
after_wait ==
    IF swap_index # 0 THEN "apply_second"
    ELSE IF Len(oplog) # 0 THEN "apply_first"
    ELSE "swap"

\* wait, from entry s of the slab on: entries whose recorded epoch is even
\* are passed over; the loop stops at the first other one, whose counter is
\* to be loaded, or ends in `after`
wait_from(s, after) ==
    LET t == NextOdd(s, last_epochs) IN
    IF t > Len(slab)
    THEN wpc' = after /\ wi' = 1
    ELSE wpc' = wpc /\ wi' = t

\* the registry mutex is locked and wait is entered: last_epochs is resized
\* to the capacity of the slab and the loop starts
lock_and_wait(waiting, after) ==
    /\ mutex = "free"
    /\ last_epochs' = Resize(last_epochs, Capacity)
    /\ LET t == NextOdd(1, last_epochs') IN
       IF t > Len(slab)
       THEN wpc' = after /\ wi' = 1
       ELSE wpc' = waiting /\ wi' = t

\* one load of the loop of wait: a counter that has changed lets the loop go
\* on, one that has not makes it retry from the same entry
wait_load(after) ==
    IF has_changed(repoch[slab[wi]], last_epochs[wi])
    THEN wait_from(wi + 1, after)
    ELSE UNCHANGED <<wpc, wi>>

\* WriteHandle::publish is called
publish ==
    /\ WriterIdle
    /\ wop' = "publish"
    /\ lock_and_wait("pub_wait", after_wait)
    /\ mutex' = "writer"
    /\ pinned' = Guards
    /\ UNCHANGED <<data, status, inner, w_handle, oplog, swap_index,
                   taken_ptr, result, slab, rvars, hvars, stale>>

\* (mutant) flush publishes whether or not operations are pending
flush_always ==
    /\ WriterIdle
    /\ wop' = "flush"
    /\ lock_and_wait("pub_wait", after_wait)
    /\ mutex' = "writer"
    /\ pinned' = Guards
    /\ UNCHANGED <<data, status, inner, w_handle, oplog, swap_index,
                   taken_ptr, result, slab, rvars, hvars, stale>>

\* WriteHandle::flush
flush ==
    /\ WriterIdle
    /\ IF has_pending_operations
       THEN /\ wop' = "flush"
            /\ lock_and_wait("pub_wait", after_wait)
            /\ mutex' = "writer"
            /\ pinned' = Guards
            /\ UNCHANGED <<data, status, inner, w_handle, oplog, swap_index,
                           taken_ptr, result, slab, rvars, hvars, stale>>
       ELSE UNCHANGED vars

\* the wait of publish
publish_wait ==
    /\ wpc = "pub_wait"
    /\ wait_load(after_wait)
    /\ UNCHANGED <<data, status, inner, w_handle, oplog, swap_index,
                   last_epochs, wop, taken_ptr, result, slab, mutex, rvars,
                   gvars>>

\* (mutant) the log is applied to the copy the readers are on
apply_target_published == inner

\* the copy publish applies the log to
apply_target == w_handle

\* publish: one operation of oplog.drain(0..swap_index) is second-applied;
\* the drained range leaves the log with the last of them
publish_apply_second ==
    /\ wpc = "apply_second"
    /\ data' = [data EXCEPT ![apply_target] = apply_second(oplog[wi], @)]
    /\ IF wi = swap_index
       THEN /\ oplog' = SubSeq(oplog, swap_index + 1, Len(oplog))
            /\ wpc' = IF Len(oplog') # 0 THEN "apply_first" ELSE "swap"
            /\ wi' = 1
       ELSE /\ wi' = wi + 1
            /\ UNCHANGED <<oplog, wpc>>
    /\ UNCHANGED <<status, inner, w_handle, swap_index, last_epochs, wop,
                   taken_ptr, result, slab, mutex, rvars, gvars>>

\* publish: one operation of oplog.iter_mut() is first-applied
publish_apply_first ==
    /\ wpc = "apply_first"
    /\ data' = [data EXCEPT ![apply_target] = apply_first(oplog[wi], @)]
    /\ IF wi = Len(oplog)
       THEN wpc' = "swap" /\ wi' = 1
       ELSE wpc' = wpc /\ wi' = wi + 1
    /\ UNCHANGED <<status, inner, w_handle, oplog, swap_index, last_epochs,
                   wop, taken_ptr, result, slab, mutex, rvars, gvars>>

\* (mutant) the log is replayed after the swap, onto the copy swapped out
publish_swap_then_replay ==
    /\ wpc = "swap"
    /\ swap_index' = Len(oplog)
    /\ inner' = w_handle
    /\ w_handle' = inner
    /\ wpc' = IF Len(oplog) # 0 THEN "apply_first" ELSE "snapshot"
    /\ wi' = 1
    /\ published' = published \cup {Len(allOps)}
    /\ UNCHANGED <<data, status, oplog, last_epochs, wop, taken_ptr, result,
                   slab, mutex, rvars, allOps, completed, enters, registered,
                   pinned, stale>>

\* (mutant) swap_index is not moved to the end of the log
publish_swap_keep_index ==
    /\ wpc = "swap"
    /\ swap_index' = swap_index
    /\ inner' = w_handle
    /\ w_handle' = inner
    /\ wpc' = "snapshot"
    /\ wi' = 1
    /\ published' = published \cup {Len(allOps)}
    /\ UNCHANGED <<data, status, oplog, last_epochs, wop, taken_ptr, result,
                   slab, mutex, rvars, allOps, completed, enters, registered,
                   pinned, stale>>

\* (mutant) the pointer swapped out of r_handle.inner is not stored in w_handle
publish_swap_no_exchange ==
    /\ wpc = "swap"
    /\ swap_index' = Len(oplog)
    /\ inner' = w_handle
    /\ w_handle' = w_handle
    /\ wpc' = "snapshot"
    /\ wi' = 1
    /\ published' = published \cup {Len(allOps)}
    /\ UNCHANGED <<data, status, oplog, last_epochs, wop, taken_ptr, result,
                   slab, mutex, rvars, allOps, completed, enters, registered,
                   pinned, stale>>

\* publish: swap_index becomes the length of the log, and the published
\* pointer is swapped with w_handle
publish_swap ==
    /\ wpc = "swap"
    /\ swap_index' = Len(oplog)
    /\ inner' = w_handle
    /\ w_handle' = inner
    /\ wpc' = "snapshot"
    /\ wi' = 1
    /\ published' = published \cup {Len(allOps)}
    /\ UNCHANGED <<data, status, oplog, last_epochs, wop, taken_ptr, result,
                   slab, mutex, rvars, allOps, completed, enters, registered,
                   pinned, stale>>

\* publish: the epoch of one registered reader is loaded into last_epochs;
\* after the last one the mutex is released and publish returns
publish_snapshot ==
    /\ wpc = "snapshot"
    /\ LET s == NextSlot(wi) IN
       IF s <= Len(slab)
       THEN /\ last_epochs' = [last_epochs EXCEPT ![s] = repoch[slab[s]]]
            /\ wi' = s + 1
            /\ stale' = stale \ {s}
            /\ UNCHANGED <<wpc, wop, mutex, completed, pinned>>
       ELSE /\ mutex' = "free"
            /\ completed' = Len(allOps)
            /\ pinned' = {}
            /\ UNCHANGED stale
            /\ wi' = 0
            /\ IF wop \in {"take", "drop"}
               THEN wpc' = "shut_null" /\ wop' = wop
               ELSE wpc' = "idle" /\ wop' = "none"
            /\ UNCHANGED last_epochs
    /\ UNCHANGED <<data, status, inner, w_handle, oplog, swap_index,
                   taken_ptr, result, slab, rvars, allOps, published, enters,
                   registered>>

(* ---------------------- take and the destructor ----------------------- *)

\* (mutant) take / drop without the publish of the pending operations
shutdown_begin_no_publish(op) ==
    /\ wpc = "idle"
    /\ wop' = op
    /\ wpc' = "shut_null"
    /\ UNCHANGED <<mutex, last_epochs, wi, data, status, inner, w_handle,
                   oplog, swap_index, taken_ptr, result, slab, rvars, gvars>>

\* take / drop, first statement: publish if swap_index != oplog.len()
shutdown_begin(op) ==
    /\ WriterIdle
    /\ wop' = op
    /\ IF swap_index # Len(oplog)
       THEN /\ lock_and_wait("pub_wait", after_wait)
            /\ mutex' = "writer"
            /\ pinned' = Guards
       ELSE /\ wpc' = "shut_null"
            /\ UNCHANGED <<mutex, last_epochs, wi, pinned>>
    /\ UNCHANGED <<data, status, inner, w_handle, oplog, swap_index,
                   taken_ptr, result, slab, rvars, hvars, stale>>

\* WriteHandle::take is called
take == shutdown_begin("take")

\* the WriteHandle is dropped
drop == shutdown_begin("drop")

\* (mutant) the published pointer is left in place
null_mut_kept == inner

\* the pointer take / drop swap into r_handle.inner
null_mut == Null

\* take / drop: r_handle = self.r_handle.inner.swap(null_mut())
shutdown_null ==
    /\ wpc = "shut_null"
    /\ taken_ptr' = inner
    /\ inner' = null_mut
    /\ wpc' = "shut_lock"
    /\ UNCHANGED <<data, status, w_handle, oplog, swap_index, last_epochs,
                   wop, wi, result, slab, mutex, rvars, gvars>>

\* the holder of the registry mutex once the wait of take / drop is over:
\* take releases it at the end of its block, drop keeps it to the end of
\* its body
after_shutdown_wait == IF wpc' = "shut_wait" \/ wop = "drop" THEN "writer" ELSE "free"

\* take / drop: the registry mutex is locked and wait is called
shutdown_lock ==
    /\ wpc = "shut_lock"
    /\ lock_and_wait("shut_wait", "shut_drop_w")
    /\ mutex' = after_shutdown_wait
    /\ UNCHANGED <<data, status, inner, w_handle, oplog, swap_index, wop,
                   taken_ptr, result, slab, rvars, gvars>>

\* take / drop: the wait
shutdown_wait ==
    /\ wpc = "shut_wait"
    /\ wait_load("shut_drop_w")
    /\ mutex' = after_shutdown_wait
    /\ UNCHANGED <<data, status, inner, w_handle, oplog, swap_index,
                   last_epochs, wop, taken_ptr, result, slab, rvars, gvars>>

\* take / drop: drop(Box::from_raw(w_handle))
shutdown_drop_w ==
    /\ wpc = "shut_drop_w"
    /\ status' = [status EXCEPT ![w_handle] = "freed"]
    /\ wpc' = "shut_drop_r"
    /\ UNCHANGED <<data, inner, w_handle, oplog, swap_index, last_epochs,
                   wop, wi, taken_ptr, result, slab, mutex, rvars, gvars>>

\* take: Box::from_raw(r_handle) is what take returns;
\* drop: drop(Box::from_raw(r_handle)), after which the mutex guard goes
shutdown_drop_r ==
    /\ wpc = "shut_drop_r"
    /\ IF wop = "take"
       THEN /\ result' = <<data[taken_ptr]>>
            /\ status' = [status EXCEPT ![taken_ptr] = "owned"]
            /\ UNCHANGED mutex
       ELSE /\ status' = [status EXCEPT ![taken_ptr] = "freed"]
            /\ mutex' = "free"
            /\ UNCHANGED result
    /\ wpc' = "shut_fields"
    /\ UNCHANGED <<data, inner, w_handle, oplog, swap_index, last_epochs,
                   wop, wi, taken_ptr, slab, rvars, gvars>>

\* take / drop: the other fields are dropped; dropping the read handle the
\* write handle owns removes its slot under the registry mutex
shutdown_fields ==
    /\ wpc = "shut_fields"
    /\ mutex = "free"
    /\ SlabRemove(0)
    /\ rpc' = [rpc EXCEPT ![0] = "none"]
    /\ oplog' = <<>>
    /\ last_epochs' = <<>>
    /\ wpc' = "done"
    /\ UNCHANGED <<data, status, inner, w_handle, swap_index, wop, wi,
                   taken_ptr, result, mutex, repoch, rguards, robs, leaked,
                   gvars>>

(* ------------------------------ the system ----------------------------- *)

\* the steps of the read handles
ReaderNext ==
    \/ \E r \in Readers : ReaderIncrement(r)
    \/ \E r \in Readers : ReaderLoad(r)
    \/ \E r \in Readers : ReaderRollback(r)
    \/ \E r \in Readers : GuardDrop(r)
    \/ \E r \in Readers : ReaderRegister(r)
    \/ \E r \in Readers : ReaderDeregister(r)

\* the calls on the write handle and their steps, the waits apart
WriterNext ==
    \/ publish
    \/ flush
    \/ publish_apply_second
    \/ publish_apply_first
    \/ publish_swap
    \/ publish_snapshot
    \/ take
    \/ drop
    \/ shutdown_null
    \/ shutdown_lock
    \/ shutdown_drop_w
    \/ shutdown_drop_r
    \/ shutdown_fields

\* readers and writer side by side, every guard being dropped in the end;
\* the payloads of the operations count up
NextDropping ==
    \/ ReaderNext
    \/ append(NextOp)
    \/ extend(<<NextOp, NextOp + 1>>)
    \/ WriterNext
    \/ publish_wait
    \/ shutdown_wait

\* readers and writer side by side, with guards that may be forgotten
Next ==
    \/ NextDropping
    \/ \E r \in Readers : GuardForget(r)

Spec == Init /\ [][Next]_vars

\* the writer alone, with every payload and every batch, reading through
\* its own handle; the only counter a wait can load is its own, which does
\* not change while it waits
NextSeq ==
    \/ \E op \in Ops : append(op)
    \/ \E ops \in Batches(MaxOps) : extend(ops)
    \/ WriterNext
    \/ ReaderIncrement(0)
    \/ ReaderLoad(0)
    \/ GuardDrop(0)
    \/ GuardForget(0)
    \/ publish_wait
    \/ shutdown_wait

SpecSeq == Init /\ [][NextSeq]_vars

\* the loads of the loop of wait, in publish and in take / drop
WaitStep == publish_wait \/ shutdown_wait

\* the steps a reader's thread takes once it is inside enter or holds a guard
ReaderStep(r) == ReaderLoad(r) \/ ReaderRollback(r) \/ GuardDrop(r)

\* every thread that is inside a call keeps being scheduled: the writer
\* goes on loading in the loop of wait, a reader finishes its enter and drops
\* its guard
Fairness ==
    /\ WF_vars(WaitStep)
    /\ \A r \in Readers : WF_vars(ReaderStep(r))

SpecLive == Init /\ [][NextDropping]_vars /\ Fairness

\* the system with read handles cloned by the threads that read through them
NextClone ==
    \/ Next
    \/ \E q \in Readers : ReaderCloneLock(q)
    \/ \E q \in Readers : ReaderCloneInsert(q)

SpecClone == Init /\ [][NextClone]_vars

\* clone / factory once a read handle has been dropped: Slab::insert puts the
\* new handle's counter, starting at zero, into the vacant entry, whatever
\* last_epochs holds for it
ReaderReuse(r) ==
    /\ r # 0
    /\ rpc[r] = "none"
    /\ mutex = "free"
    /\ \E s \in 1 .. Len(slab) : slab[s] = Vacant
    /\ SlabInsert(r)
    /\ rpc' = [rpc EXCEPT ![r] = "ready"]
    /\ repoch' = [repoch EXCEPT ![r] = 0]
    /\ robs' = [robs EXCEPT ![r] = Initial]
    /\ UNCHANGED <<wvars, mutex, rguards, leaked, gvars>>

\* a write handle that is kept and published from, with read handles that
\* come and go, a new one taking the slot of a dropped one; the published
\* pointer is never null, so that no enter is rolled back
NextReuse ==
    \/ \E r \in Readers : ReaderIncrement(r)
    \/ \E r \in Readers : ReaderLoad(r)
    \/ \E r \in Readers : GuardDrop(r)
    \/ \E r \in Readers : ReaderRegister(r)
    \/ \E r \in Readers : ReaderDeregister(r)
    \/ \E r \in Readers : ReaderReuse(r)
    \/ append(NextOp)
    \/ extend(<<NextOp, NextOp + 1>>)
    \/ publish
    \/ flush
    \/ publish_wait
    \/ publish_apply_second
    \/ publish_apply_first
    \/ publish_swap
    \/ publish_snapshot

SpecReuse == Init /\ [][NextReuse]_vars

(* ------------------------------ properties ----------------------------- *)

Prefix(s, n) == SubSeq(s, 1, n)

IsPrefix(a, b) == Len(a) <= Len(b) /\ SubSeq(b, 1, Len(a)) = a

\* the value of a copy that has seen the first n operations appended
FoldTo(n) == Fold(Initial, Prefix(allOps, n))

\* read handle r has a live guard
Holding(r) == Held(r) # {}

\* publish is applying operations to the write copy
Applying == wpc \in {"apply_second", "apply_first"}

\* take / drop have swapped null into the published pointer
AfterNull ==
    wpc \in {"shut_lock", "shut_wait", "shut_drop_w", "shut_drop_r",
             "shut_fields", "done"}

\* C1 (as claimed): whenever publish is applying operations (apply_second on
\* the drained range or apply_first on the rest), the copy it mutates is not
\* the one the published pointer points at, and no reader holds a guard on it.
C1_NoReaderOnWriteCopy ==
    Applying =>
        /\ apply_target # inner
        /\ \A r \in Readers : apply_target \notin Held(r)

\* C2 (as claimed): once take has dropped the write copy or handed out the
\* published copy, or the destructor has freed them, no reader holds a guard
\* on a copy that is no longer the write handle's.
C2_NoGuardOnReleasedCopy ==
    \A c \in Copies : status[c] # "live" =>
        \A r \in Readers : c \notin Held(r)

\* C3: between calls, and so right after publish returns, the published copy
\* is the initial value with every operation appended up to the last publish
\* applied, in append order, each once.
C3_PublishedIsFold ==
    wpc \in {"idle", "shut_null"} => data[inner] = FoldTo(completed)

\* C3 witness: publish has returned for the second time with new operations,
\* and nothing has been appended since.
C3_Witness ==
    /\ wpc = "idle"
    /\ Cardinality(published) >= 3
    /\ completed = Len(allOps)

\* C4 (as claimed): after publish returns, both copies hold the value of the
\* fold of all operations appended so far.
C4_BothCopiesAreFold ==
    (wpc = "idle" /\ completed = Len(allOps)) =>
        \A c \in Copies : data[c].val = FoldTo(Len(allOps)).val

\* C4 (amended): after publish returns, the published copy is the fold of all
\* operations published so far, and the write copy is that fold without the
\* operations published last, which are the first swap_index entries of the
\* log; with no such entries the two copies are equal.
C4_CopiesAfterPublish ==
    wpc = "idle" =>
        /\ swap_index <= completed
        /\ data[inner] = FoldTo(completed)
        /\ data[w_handle] = FoldTo(completed - swap_index)
        /\ Prefix(oplog, swap_index)
               = SubSeq(allOps, completed - swap_index + 1, completed)
        /\ swap_index = 0 => data[inner] = data[w_handle]

\* C4 witness: after a second publish with operations of its own the write
\* copy holds another value than the published copy.
C4_Witness ==
    /\ wpc = "idle"
    /\ Cardinality(published) >= 3
    /\ completed = Len(allOps)
    /\ swap_index > 0
    /\ data[inner].val # data[w_handle].val

\* C5: a step that makes the log longer only adds to its tail: the
\* published pointer, both copies, swap_index and last_epochs stay as they
\* are, and so does what every guard and every new enter reads.
C5_AppendFrame ==
    [][Len(oplog') > Len(oplog) =>
          /\ IsPrefix(oplog, oplog')
          /\ UNCHANGED <<inner, data, status, swap_index, last_epochs>>
          /\ \A r \in Readers : \A c \in Held(r) :
                 /\ rguards'[r][c] = rguards[r][c]
                 /\ Deref(c)' = Deref(c)
      ]_vars

\* C5 witness: operations are pending, and a guard reads the value of the
\* last publish, without them.
C5_Witness ==
    /\ wpc = "idle"
    /\ has_pending_operations
    /\ completed > 0
    /\ \E r \in Readers :
          inner \in Held(r) /\ Deref(inner) = {FoldTo(completed)}

\* C6: the value a reader gets when its enter loads the published pointer
\* includes every operation of the last publish that has returned.
C6_EnterSeesLastPublish ==
    [][\A r \in Readers :
          (rpc[r] = "entered" /\ rpc'[r] = "ready") =>
              /\ IsPrefix(Prefix(allOps, completed), robs'[r].hist)
              /\ robs'[r] = FoldTo(Len(robs'[r].hist))
      ]_vars

\* C6 witness: a reader holds a guard on the state of a publish that has
\* returned, with operations in it.
C6_Witness ==
    /\ wpc = "idle"
    /\ completed > 0
    /\ \E r \in Readers : Holding(r) /\ robs[r] = FoldTo(completed)

\* C7 (as claimed): what a guard reads is the state of one of the publishes
\* so far, and it is what the reader saw when it entered: it stays the same
\* for as long as the guard is held.
C7_GuardReadsPublishedState ==
    /\ [](\A r \in Readers : \A c \in Held(r) :
             \E k \in published : Deref(c) = {FoldTo(k)})
    /\ [][\A r \in Readers : \A c \in Held(r) :
             c \in Held(r)' => Deref(c)' = Deref(c)
         ]_vars

\* C8: from one enter of a read handle to the next, the value seen is the
\* one seen before with zero or more operations applied after it.
C8_ReaderMonotone ==
    [][\A r \in Readers :
          (rpc[r] # "none" /\ rpc'[r] # "none") =>
              IsPrefix(robs[r].hist, robs'[r].hist)
      ]_vars

\* C8 witness: a read handle is in its second read and sees operations.
C8_Witness ==
    \E r \in Readers :
        /\ Holding(r)
        /\ enters >= 2
        /\ repoch[r] = 3
        /\ Len(robs[r].hist) > 0

\* C9: what take returns is the initial value with every operation appended
\* applied, in order, each once.
C9_TakeReturnsFold ==
    result # <<>> => result = <<FoldTo(Len(allOps))>>

\* C9 witness: take has returned a value holding operations that a publish
\* of their own made visible last.
C9_Witness ==
    /\ result # <<>>
    /\ Len(allOps) >= 2
    /\ completed = Len(allOps)
    /\ swap_index > 0

GuardCount(r) == rguards[r][1] + rguards[r][2] + leaked[r]

C11_PublishWaitsForGuards ==
    [][(wpc = "snapshot" /\ wpc' # "snapshot") => pinned = {}]_vars

\* C12: when every reader finishes its enter and drops every guard it holds
\* and the writer keeps running, the writer does not stay in a wait for ever:
\* the wait of publish, of take and of the destructor ends.
C12_WaitReturns == []<>(wpc \notin {"pub_wait", "shut_wait"})

\* C12 witness: the wait has returned past a reader whose recorded epoch was
\* odd and who has left its read since, and publish goes on to the swap.
C12_Witness ==
    /\ wpc = "swap"
    /\ \E s \in 1 .. Len(slab) :
          /\ Occupied(s)
          /\ ~was_even(last_epochs[s])
          /\ rpc[slab[s]] = "ready"
          /\ ~Holding(slab[s])
          /\ repoch[slab[s]] = Inc(last_epochs[s])

\* the moves of a read handle: enter is the increment, the load and, on a
\* null pointer, the rollback; the drop of a guard is one increment of a
\* handle that is in no call, and so is no move
ReaderMoves ==
    {<<"ready", "entered">>, <<"entered", "ready">>, <<"entered", "rollback">>,
     <<"rollback", "ready">>, <<"none", "ready">>, <<"ready", "none">>}

\* C13: in every state of the writer, a reader inside enter can take its next
\* step and a reader holding a guard can drop it; enter is over after at most
\* three steps of the reader and the drop after one, and none of these steps
\* touches the registry or its mutex.
C13_ReadersWaitFree ==
    /\ [](\A r \in Readers :
            /\ (rpc[r] = "ready" /\ (r = 0 => wpc = "idle")
                    /\ enters < MaxEnters)
                   => ENABLED ReaderIncrement(r)
            /\ rpc[r] = "entered" => ENABLED ReaderLoad(r)
            /\ rpc[r] = "rollback" => ENABLED ReaderRollback(r)
            /\ (rpc[r] = "ready" /\ Holding(r)) => ENABLED GuardDrop(r))
    /\ [][\A r \in Readers :
             /\ rpc'[r] # rpc[r] => <<rpc[r], rpc'[r]>> \in ReaderMoves
             /\ (/\ <<rpc'[r], repoch'[r], rguards'[r]>>
                       # <<rpc[r], repoch[r], rguards[r]>>
                 /\ "none" \notin {rpc[r], rpc'[r]})
                    => UNCHANGED <<mutex, slab, wvars>>
         ]_vars

\* C13 witness: while the writer spins in the wait of publish with the mutex
\* held, a reader has entered and holds a guard it did not hold when publish
\* was called.
C13_Witness ==
    /\ wpc = "pub_wait"
    /\ mutex = "writer"
    /\ \E r \in Readers : Holding(r) /\ r \notin pinned /\ slab[wi] = r

\* C14: when nothing has been appended since the previous publish, the swap
\* of publish leaves the value under the published pointer as it was and the
\* two copies equal.
C14_RepublishKeepsValue ==
    [][(wpc = "swap" /\ wpc' = "snapshot" /\ Len(allOps) \in published) =>
          /\ inner' # inner
          /\ data'[inner'] = data[inner]
          /\ data'[inner'] = data'[w_handle']
      ]_vars

\* C14 witness: a publish with operations has been followed by a publish
\* without any: the log is empty and the copies are equal.
C14_Witness ==
    /\ wpc = "idle"
    /\ completed = Len(allOps)
    /\ completed > 0
    /\ swap_index = 0
    /\ oplog = <<>>
    /\ data[inner] = data[w_handle]

\* C15: flush changes nothing when no operation is pending, and only then;
\* with operations pending its first step is the first step of publish (the
\* mutex is taken, last_epochs is resized, the wait starts), the steps of
\* publish follow, and when it returns nothing is pending and the published
\* copy holds every operation appended.
C15_FlushIffPending ==
    /\ []((WriterIdle /\ ~has_pending_operations) => ~ENABLED <<flush>>_vars)
    /\ []((WriterIdle /\ has_pending_operations) => ENABLED <<flush>>_vars)
    /\ [][(wop = "none" /\ wop' = "flush") =>
             /\ has_pending_operations
             /\ mutex = "free" /\ mutex' = "writer"
             /\ last_epochs' = Resize(last_epochs, Capacity)
             /\ wpc' = IF NextOdd(1, last_epochs') > Len(slab)
                       THEN after_wait ELSE "pub_wait"
             /\ UNCHANGED <<data, status, inner, w_handle, oplog, swap_index,
                            slab, rvars>>
         ]_vars
    /\ [][(wop = "flush" /\ wop' = "none") =>
             /\ ~has_pending_operations'
             /\ inner' # Null /\ data'[inner'] = FoldTo(Len(allOps))
             /\ Cardinality(published) > 1
         ]_vars

\* C15 witness: a flush with operations pending has applied them and is at
\* its swap while a reader holds a guard.
C15_Witness ==
    /\ wop = "flush"
    /\ wpc = "swap"
    /\ Len(oplog) > 0
    /\ \E r \in Readers : Holding(r)

\* C16: between calls, has_pending_operations is true exactly when an
\* operation has been appended since the last publish returned (since
\* construction, when none has); a publish with nothing appended swaps the
\* copies all the same and leaves it false.
C16_PendingIffAppended ==
    /\ [](WriterIdle => (has_pending_operations <=> Len(allOps) > completed))
    /\ [][(wpc = "swap" /\ wpc' = "snapshot") =>
             /\ inner' = w_handle /\ w_handle' = inner /\ inner' # inner
             /\ ~has_pending_operations'
         ]_vars
    /\ [][(wpc = "snapshot" /\ wpc' = "idle") => ~has_pending_operations']_vars

\* C16 witness: a publish of the empty log has swapped the copies and
\* returned, and an operation appended after it is pending.
C16_Witness ==
    /\ wpc = "idle"
    /\ inner = 2
    /\ completed = 0
    /\ Len(allOps) = 1
    /\ has_pending_operations

\* C17: the published pointer is one of the two copies or null; it is null
\* only once take or the destructor has swapped null in; it is never the
\* writer's write copy; and it changes only in the swap of publish and in the
\* null-swap, which are steps of the writer: no step of a reader changes it.
C17_PublishedPointer ==
    /\ [](inner \in Copies \cup {Null})
    /\ [](inner = Null => AfterNull)
    /\ [](w_handle \in Copies /\ inner # w_handle)
    /\ [][inner' # inner =>
             /\ wpc \in {"swap", "shut_null"}
             /\ wpc' # wpc
             /\ UNCHANGED rvars
         ]_vars
    /\ [][rvars' # rvars => inner' = inner]_vars

\* C17 witness: after a publish has swapped the copies, take or the
\* destructor has swapped null in, while a reader holds a guard on the copy
\* that was published.
C17_Witness ==
    /\ wpc = "shut_lock"
    /\ inner = Null
    /\ taken_ptr = 2
    /\ w_handle = 1
    /\ \E r \in Readers : 2 \in Held(r)

\* C18 (as claimed): whenever the writer spins in a wait with the registry
\* mutex held, the reader it is waiting on holds its guard without being at
\* the lock of that mutex, and can drop the guard.
C18_WaitedReaderCanDrop ==
    [](\A s \in 1 .. Len(slab) :
          (/\ wpc \in {"pub_wait", "shut_wait"}
           /\ mutex = "writer"
           /\ wi = s
           /\ Occupied(s)
           /\ Holding(slab[s]))
              => ENABLED GuardDrop(slab[s]))

\* C19 (as claimed): the destructor runs the shutdown sequence of take, and
\* as in take the registry mutex has been released when the copies are
\* dropped: no copy is dropped (or handed out) while the writer holds the
\* mutex.
C19_CopiesDroppedUnlocked ==
    /\ (wpc \in {"shut_drop_w", "shut_drop_r"} /\ wop \in {"take", "drop"})
           => mutex = "free"
    /\ (wpc = "shut_fields" /\ wop = "drop")
           => \A c \in Copies : status[c] = "freed"

\* the slots the loop of wait has gone past
Passed(pc, i) == IF pc \in {"pub_wait", "shut_wait"} THEN 1 .. i - 1 ELSE {}

\* C20: the loop of wait goes past a registered slot, and wait returns, only
\* if the epoch recorded for the slot at the last snapshot was even or the
\* epoch the wait then loads from the reader's counter differs from it; the
\* wait does not return at a reader whose recorded epoch is odd and whose
\* counter still holds it.
C20_WaitPassesQuiescent ==
    [][LET starts == \/ wpc = "idle" /\ wpc' \notin {"idle", "shut_null"}
                     \/ wpc = "shut_lock" /\ wpc' # wpc
           goes_on == wpc \in {"pub_wait", "shut_wait"}
                          /\ (wpc' # wpc \/ wi' # wi)
           before == Passed(wpc, wi)
           after == IF wpc' \in {"pub_wait", "shut_wait"}
                    THEN Passed(wpc', wi') ELSE 1 .. Len(slab)
       IN  (starts \/ goes_on) =>
               /\ Len(last_epochs') = Capacity
               /\ \A s \in after \ before : Occupied(s) =>
                      \/ was_even(last_epochs'[s])
                      \/ repoch[slab[s]] # last_epochs'[s]
               /\ wpc' \in {"pub_wait", "shut_wait"} =>
                      /\ Occupied(wi')
                      /\ ~was_even(last_epochs'[wi'])
      ]_vars

\* C20 witness: the wait of publish has returned past a reader that was in a
\* read at the last snapshot and is in a new read now, with a guard on the
\* published copy.
C20_Witness ==
    /\ wpc \in {"apply_second", "apply_first"}
    /\ \E s \in 1 .. Len(slab) :
          /\ Occupied(s)
          /\ ~was_even(last_epochs[s])
          /\ repoch[slab[s]] = Inc(Inc(last_epochs[s]))
          /\ inner \in Held(slab[s])

\* the place in allOps of entry i of the log: the log is the tail of allOps
LogIndex(i) == Len(allOps) - Len(oplog) + i

\* the copy that is not c
Other(c) == CHOOSE d \in Copies : d # c

\* C21: each copy gets the operations in append order, each once; a first
\* application puts an operation on a copy whose twin does not have it yet,
\* a second application puts it on the twin of a copy that has it; the log
\* loses entries only at the end of the second applications, and then the
\* entries both copies have; at the swap every operation appended has been
\* first-applied.
C21_AppliedTwiceInOrder ==
    /\ [](\A c \in Copies : IsPrefix(data[c].hist, allOps))
    /\ [](wpc # "done" => oplog = SubSeq(allOps, LogIndex(1), Len(allOps)))
    /\ [][(wpc = "apply_first" /\ data' # data) =>
             LET c == CHOOSE d \in Copies : data'[d] # data[d] IN
             /\ data'[Other(c)] = data[Other(c)]
             /\ Len(data[c].hist) = LogIndex(wi) - 1
             /\ data'[c].hist = Prefix(allOps, LogIndex(wi))
             /\ Len(data[Other(c)].hist) < LogIndex(wi)
             /\ oplog' = oplog
         ]_vars
    /\ [][(wpc = "apply_second" /\ data' # data) =>
             LET c == CHOOSE d \in Copies : data'[d] # data[d] IN
             /\ data'[Other(c)] = data[Other(c)]
             /\ Len(data[c].hist) = LogIndex(wi) - 1
             /\ data'[c].hist = Prefix(allOps, LogIndex(wi))
             /\ Len(data[Other(c)].hist) >= LogIndex(wi)
         ]_vars
    /\ [][(Len(oplog') < Len(oplog) /\ wpc # "shut_fields") =>
             /\ wpc = "apply_second"
             /\ Len(oplog) - Len(oplog') = swap_index
             /\ \A c \in Copies : Len(data'[c].hist) >= LogIndex(swap_index)
         ]_vars
    /\ [][wpc = "swap" => data[w_handle].hist = allOps]_vars
    /\ [][data' # data => wpc \in {"apply_first", "apply_second"}]_vars

\* C21 witness: an operation has been first-applied by one publish and
\* second-applied and drained by the next, which first-applied another one
\* that is still in the log.
C21_Witness ==
    /\ wpc = "idle"
    /\ Len(allOps) >= 2
    /\ Len(oplog) = 1
    /\ swap_index = 1
    /\ data[inner].hist = allOps
    /\ data[w_handle].hist = Prefix(allOps, Len(allOps) - 1)

\* C22: between the calls on the write handle (after new and after any
\* append, extend, publish or flush) swap_index is at most the length of the
\* log, and when publish returns it is the length of the log.  Inside
\* publish this holds too, except from the drain to the swap.
C22_SwapIndexInLog ==
    /\ [](wpc \notin {"apply_first", "swap", "done"} => swap_index <= Len(oplog))
    /\ [][(wpc = "swap" /\ wpc' # wpc) => swap_index' = Len(oplog')]_vars
    /\ [][(wpc = "snapshot" /\ wpc' # wpc) => swap_index' = Len(oplog')]_vars

\* C22 witness: after a publish and appends of both before and after it,
\* swap_index is inside the log.
C22_Witness ==
    /\ wpc = "idle"
    /\ swap_index = 1
    /\ Len(oplog) = 2
    /\ completed = 1

\* C23: when publish returns, the log holds the operations appended since
\* the publish before it returned, in order, and nothing else: the drain
\* has taken out the operations that publish had made visible.  Between
\* calls the log is that batch followed by the operations appended since.
C23_LogAfterPublish ==
    /\ [][(wpc = "snapshot" /\ wpc' # wpc) =>
             /\ oplog' = SubSeq(allOps, completed + 1, Len(allOps))
             /\ completed' = Len(allOps)
         ]_vars
    /\ [](WriterIdle =>
             /\ Prefix(oplog, swap_index)
                    = SubSeq(allOps, completed - swap_index + 1, completed)
             /\ SubSeq(oplog, swap_index + 1, Len(oplog))
                    = SubSeq(allOps, completed + 1, Len(allOps)))

\* C23 witness: the second of two publishes, each with an operation of its
\* own, has returned: the log holds the second operation alone.
C23_Witness ==
    /\ wpc = "idle"
    /\ completed = 2
    /\ Cardinality(published) = 3
    /\ oplog = SubSeq(allOps, 2, 2)

\* the place of a position of publish in the order of its statements
Rank(pc) ==
    CASE pc = "pub_wait" -> 1
      [] pc = "apply_second" -> 2
      [] pc = "apply_first" -> 3
      [] pc = "swap" -> 4
      [] pc = "snapshot" -> 5
      [] OTHER -> 0

\* C24: publish holds the registry mutex from its wait to its snapshot; it
\* goes from the wait to the applications, to the swap, to the snapshot and
\* never back; the copies change only in the applications, before the swap;
\* the published pointer is exchanged only in the swap; and an entry of
\* last_epochs is overwritten only in the snapshot, after the swap, so the
\* wait tests the epochs recorded by the publish before.
C24_PublishOrder ==
    /\ [](Rank(wpc) > 0 => mutex = "writer")
    /\ [][(Rank(wpc) > 0 /\ Rank(wpc') > 0) => Rank(wpc) <= Rank(wpc')]_vars
    /\ [][(Rank(wpc) = 0 /\ Rank(wpc') > 0) =>
              (wpc = "idle" /\ Rank(wpc') <= 4 /\ mutex = "free")]_vars
    /\ [][(Rank(wpc) > 0 /\ Rank(wpc') = 0) =>
              (wpc = "snapshot" /\ mutex' = "free")]_vars
    /\ [][data' # data => Rank(wpc) \in {2, 3}]_vars
    /\ [][(inner' # inner /\ inner' # Null) => (wpc = "swap" /\ wpc' = "snapshot")]_vars
    /\ [][(wpc' = wpc /\ Rank(wpc) \in {1, 2, 3, 4}) => last_epochs' = last_epochs]_vars
    /\ [][(last_epochs' # last_epochs /\ Len(last_epochs') = Len(last_epochs)
              /\ wpc # "shut_fields") => wpc = "snapshot"]_vars

\* C24 witness: publish has applied operations and swapped, and is about to
\* record the odd epoch of a reader that entered after the snapshot before.
C24_Witness ==
    /\ wpc = "snapshot"
    /\ wop = "publish"
    /\ Len(oplog) > 0
    /\ \E s \in 1 .. Len(slab) :
          /\ Occupied(s)
          /\ s >= wi
          /\ was_even(last_epochs[s])
          /\ ~was_even(repoch[slab[s]])
          /\ w_handle \in Held(slab[s])

\* the place of a position of publish in the order the crate documentation
\* gives: the swap (with the snapshot that follows it), the wait, the replay
DocRank(pc) ==
    CASE pc \in {"swap", "snapshot"} -> 1
      [] pc = "pub_wait" -> 2
      [] pc \in {"apply_second", "apply_first"} -> 3
      [] OTHER -> 0

\* C25 (as claimed): within one call of publish the swap of the published
\* pointer comes first, the wait for the readers after it, and the replay of
\* the log last: publish never goes from the wait or the replay to the swap,
\* and every call that replays operations has swapped before.
C25_SwapThenWaitThenReplay ==
    [][(DocRank(wpc) > 0 /\ DocRank(wpc') > 0) => DocRank(wpc) <= DocRank(wpc')]_vars

\* the first wait of the write handle is entered: last_epochs, empty since
\* new(), gets its size
WaitEntered == last_epochs = <<>> /\ last_epochs' # <<>>

\* C26: the first wait of a write handle, the one that sizes last_epochs,
\* fills it with zeros and returns at once, whatever the number of
\* registered readers and whether or not they hold guards; and whenever the
\* writer does sit in a wait, some occupied slot has an odd recorded epoch,
\* so that a wait over a registry with no such slot, an empty one included,
\* returns at once.
C26_FirstPublishNeverWaits ==
    [][/\ WaitEntered =>
            /\ wpc' \notin {"pub_wait", "shut_wait"}
            /\ \A s \in 1 .. Len(last_epochs') : last_epochs'[s] = 0
            /\ Len(last_epochs') = Capacity
       /\ wpc' \in {"pub_wait", "shut_wait"} =>
            \E s \in 1 .. Len(slab') :
                /\ slab'[s] # Vacant
                /\ last_epochs'[s] % 2 = 1]_vars

\* the first publish has passed its wait with a second reader registered and
\* holding a guard taken before the call
C26_Witness ==
    /\ wop = "publish"
    /\ wpc = "apply_first"
    /\ completed = 0
    /\ inner = 1
    /\ \A s \in 1 .. Len(last_epochs) : last_epochs[s] = 0
    /\ Len(last_epochs) = Capacity
    /\ Len(slab) = 2
    /\ \E r \in Readers \ {0} : Holding(r) /\ r \in pinned /\ ~was_even(repoch[r])

\* the reader is between the increment of enter and the one that ends the
\* read (the drop of the guard, or the rollback), which never comes for a
\* guard that was forgotten
InsideRead(r) ==
    \/ rpc[r] \in {"entered", "rollback"}
    \/ Holding(r)
    \/ leaked[r] > 0

\* C27 (as claimed): with epoch counters of EpochBits bits that wrap to zero, an epoch is
\* odd exactly while its reader is inside a read; publish never mutates a
\* copy a reader holds a guard on; and a wait that stands at a counter which
\* has wrapped below the epoch recorded at the last snapshot takes it as
\* changed and goes on.
C27_WrapAroundBenign ==
    /\ \A r \in Readers : rpc[r] # "none" =>
           (repoch[r] % 2 = 1 <=> InsideRead(r))
    /\ \A r \in Readers : repoch[r] \in 0 .. EpochMod - 1
    /\ Applying => \A r \in Readers : w_handle \notin Held(r)
    /\ \A s \in 1 .. Len(slab) :
           (/\ wpc \in {"pub_wait", "shut_wait"}
            /\ wi = s
            /\ repoch[slab[s]] < last_epochs[s])
           => ENABLED <<WaitStep>>_vars

====
